---- MODULE Spec2Model ----
(***************************************************************************)
(* Model of src/run_reminders.py: the EmailReminderSystem class, one       *)
(* process execution at a time (construct, run, exit), sharing the ledger  *)
(* file logs/sent_emails.json, the schedule file and the contacts file.    *)
(*                                                                         *)
(* An Event is the dict built by read_schedule.  Its location and notes    *)
(* fields are read only by create_email_message to fill the message text,  *)
(* which no property below observes; they are left out of the record.      *)
(* Calendar dates are days of June 2025: date(2025, 6, d) is the number d. *)
(***************************************************************************)
EXTENDS Naturals, Sequences, FiniteSets, TLC

\* ------------------------------------------------------------------ bounds
MaxRows == 3        \* rows of the schedule file and the contacts file together
MaxRuns == 2        \* executions of the program
MaxMarks == 3       \* direct calls of mark_as_sent on one ledger object
LastDay == 4        \* last calendar day on which the program is started

\* ------------------------------------------------------------ input values
EventTypes == {"practice", "Practice", "Game", "camp"}
DateStrings == {"2025-06-03", "2025-6-3", "2025-06-04", "2025-06-05", "2025-13-40"}
Times == {"09:00", "17:00"}

Events == [event_type : EventTypes, date : DateStrings, time : Times]

Contacts == {[parent_name |-> "Ann", email |-> "a@x.org"],
             [parent_name |-> "Bob", email |-> "b@x.org"]}

SeqsUpTo(S, n) == UNION {[1..m -> S] : m \in 0..n}

\* The schedules the orchestrator is run on: a double-header (two games on
\* the same date), a next-day practice, a game on the following day, and a
\* row whose date does not parse.
RunEvents == {[event_type |-> "Game", date |-> "2025-06-03", time |-> "09:00"],
              [event_type |-> "Game", date |-> "2025-06-03", time |-> "17:00"],
              [event_type |-> "practice", date |-> "2025-06-04", time |-> "17:00"],
              [event_type |-> "Game", date |-> "2025-06-04", time |-> "09:00"],
              [event_type |-> "practice", date |-> "2025-13-40", time |-> "09:00"]}

\* --------------------------------------------------------- pure functions

\* The kind compared as written.
Lower_asWritten(s) == s

\* str.lower() on the event kinds above.
Lower(s) ==
    CASE s = "Practice" -> "practice"
      [] s = "Game" -> "game"
      [] OTHER -> s

\* datetime.strptime(s, '%Y-%m-%d'): raises ValueError unless s is a calendar
\* date; month and day may be written without a leading zero.
DateParses(s) == s \in {"2025-06-03", "2025-6-3", "2025-06-04", "2025-06-05"}

ParseDate(s) ==
    CASE s = "2025-06-03" -> 3
      [] s = "2025-6-3" -> 3
      [] s = "2025-06-04" -> 4
      [] s = "2025-06-05" -> 5

\* {**event, 'reminder_type': kind, 'send_date': today}
Task(event, kind, today_) ==
    [event_type |-> event.event_type, date |-> event.date, time |-> event.time,
     reminder_type |-> kind, send_date |-> today_]

\* A game stays due after its day: event_date <= today.
RECURSIVE RemindLoop_overdue(_, _, _)
RemindLoop_overdue(evs, today_, n) ==
    IF n = 0 THEN << >>
    ELSE LET acc == RemindLoop_overdue(evs, today_, n - 1)
             event == evs[n]
         IN  IF ~DateParses(event.date)
             THEN acc
             ELSE IF Lower(event.event_type) = "practice"
                     /\ ParseDate(event.date) = today_ + 1
             THEN Append(acc, Task(event, "practice_reminder", today_))
             ELSE IF Lower(event.event_type) = "game"
                     /\ ParseDate(event.date) <= today_
             THEN Append(acc, Task(event, "game_reminder", today_))
             ELSE acc

\* try/except around the whole loop: the first date that does not parse
\* ends the loop.
RECURSIVE RemindLoop_tryOutside(_, _, _)
RemindLoop_tryOutside(evs, today_, n) ==
    IF n = 0 THEN << >>
    ELSE LET acc == RemindLoop_tryOutside(evs, today_, n - 1)
             event == evs[n]
         IN  IF \E m \in 1..n : ~DateParses(evs[m].date)
             THEN acc
             ELSE IF Lower(event.event_type) = "practice"
                     /\ ParseDate(event.date) = today_ + 1
             THEN Append(acc, Task(event, "practice_reminder", today_))
             ELSE IF Lower(event.event_type) = "game"
                     /\ ParseDate(event.date) = today_
             THEN Append(acc, Task(event, "game_reminder", today_))
             ELSE acc

\* The for loop of get_events_needing_reminders: events_to_remind after the
\* first n events have been examined.
RECURSIVE RemindLoop(_, _, _)
RemindLoop(evs, today_, n) ==
    IF n = 0 THEN << >>
    ELSE LET acc == RemindLoop(evs, today_, n - 1)
             event == evs[n]
         IN  IF ~DateParses(event.date)
             THEN acc                                   \* except ValueError: continue
             ELSE IF Lower(event.event_type) = "practice"
                     /\ ParseDate(event.date) = today_ + 1
             THEN Append(acc, Task(event, "practice_reminder", today_))
             ELSE IF Lower(event.event_type) = "game"
                     /\ ParseDate(event.date) = today_
             THEN Append(acc, Task(event, "game_reminder", today_))
             ELSE acc

get_events_needing_reminders(evs, today_) == RemindLoop(evs, today_, Len(evs))

\* Lines 133-135: the dates logged by self.logger.warning after the first n
\* events have been examined; only ValueError leads there.
RECURSIVE WarnLoop(_, _)
WarnLoop(evs, n) ==
    IF n = 0 THEN << >>
    ELSE LET acc == WarnLoop(evs, n - 1)
         IN  IF ~DateParses(evs[n].date) THEN Append(acc, evs[n].date)
             ELSE acc

remind_warnings(evs) == WarnLoop(evs, Len(evs))

\* The key tells two events of one day and kind apart by their time.
LogKey_withTime(event, contact_email) ==
    event.date \o "_" \o event.event_type \o "_" \o event.time \o "_"
       \o contact_email

\* The key without the recipient.
LogKey_noEmail(event, contact_email) ==
    event.date \o "_" \o event.event_type \o "_"

\* f"{event['date']}_{event['event_type']}_{contact_email}"
LogKey(event, contact_email) ==
    event.date \o "_" \o event.event_type \o "_" \o contact_email

\* A membership test that never finds the key.
has_been_sent_never(log, event, contact_email) ==
    LogKey(event, "") \in DOMAIN log

\* The lookup lower-cases the kind, the stored key does not.
has_been_sent_lowered(log, event, contact_email) ==
    LogKey([event EXCEPT !.event_type = Lower(event.event_type)],
           contact_email) \in DOMAIN log

has_been_sent(log, event, contact_email) ==
    LogKey(event, contact_email) \in DOMAIN log

\* An insert under a key built without the recipient.
mark_as_sent_other_key(log, event, contact_email, now) ==
    LET log_key == LogKey(event, "")
    IN  [k \in DOMAIN log \cup {log_key} |->
            IF k = log_key
            THEN [sent_date |-> now, event_date |-> event.date,
                  event_type |-> event.event_type, recipient |-> contact_email]
            ELSE log[k]]

\* An existing entry is kept (dict.setdefault).
mark_as_sent_keep_first(log, event, contact_email, now) ==
    LET log_key == LogKey(event, contact_email)
    IN  [k \in DOMAIN log \cup {log_key} |->
            IF k \in DOMAIN log
            THEN log[k]
            ELSE [sent_date |-> now, event_date |-> event.date,
                  event_type |-> event.event_type,
                  recipient |-> contact_email]]

\* self.email_log[log_key] = {...}: a dict assignment, which inserts the key
\* or replaces the entry it already maps to.
mark_as_sent(log, event, contact_email, now) ==
    LET log_key == LogKey(event, contact_email)
    IN  [k \in DOMAIN log \cup {log_key} |->
            IF k = log_key
            THEN [sent_date |-> now, event_date |-> event.date,
                  event_type |-> event.event_type, recipient |-> contact_email]
            ELSE log[k]]

EmptyLog == [k \in {} |-> TRUE]

\* The pair is marked whatever send_email returned.
LogAfterSend_always(log, ok, event, contact_email, now) ==
    mark_as_sent(log, event, contact_email, now)

\* The test of the result of send_email is inverted.
LogAfterSend_onFailure(log, ok, event, contact_email, now) ==
    IF ok THEN log ELSE mark_as_sent(log, event, contact_email, now)

\* Lines 267-272: the ledger after send_email has returned ok.
LogAfterSend(log, ok, event, contact_email, now) ==
    IF ok THEN mark_as_sent(log, event, contact_email, now) ELSE log

\* The position of the nested for loops after the pair (ii, jj): the next
\* contact, or the first contact of the next event.
NextPair(ii, jj, ncontacts) ==
    IF jj < ncontacts THEN <<ii, jj + 1>> ELSE <<ii + 1, 1>>

\* A failed pair is tried again.
AfterSend_retry(ok, ii, jj, ncontacts) ==
    IF ok THEN NextPair(ii, jj, ncontacts) ELSE <<ii, jj>>

\* Lines 267-272: both branches of the if fall through to the next iteration.
AfterSend(ok, ii, jj, ncontacts) == NextPair(ii, jj, ncontacts)

\* ------------------------------------------------------------------ state
VARIABLES
    scheduleFile,     \* rows of the schedule CSV
    contactsFile,     \* rows of the contacts CSV
    disk,             \* logs/sent_emails.json: [valid, log]; valid is FALSE
                      \* while the file holds no complete JSON document
    today,            \* datetime.now().date()
    clock,            \* datetime.now(): the instants this process has read
    runs,             \* executions started so far
    pc,               \* where the running execution is; "idle": none runs
    exit,             \* how the execution that has just ended did end
    email_log,        \* self.email_log
    events,           \* run(): events
    contacts,         \* run(): contacts
    events_to_remind, \* run(): events_to_remind
    warnings,         \* the "Invalid date format" warnings of this execution
    i,                \* index of the current event of the outer for loop
    j,                \* index of the current contact of the inner for loop
    total_sent,       \* run(): total_sent
    total_skipped,    \* run(): total_skipped
    summary,          \* the counts of the "Summary:" log line, once logged
    deliveries,       \* history: send_email calls of this execution, in order
    renders,          \* history: create_email_message calls of this execution
    loaded,           \* history: the ledger as loaded by this execution
    sentEver,         \* history: keys sent successfully by an execution
                      \* that has ended, whether or not it persisted them
    okDurable,        \* history: key -> successful sends of the executions
                      \* that completed _save_email_log
    failedKeys,       \* history: keys whose delivery failed in an execution
                      \* that has ended
    prev,             \* history: what the execution before read, when it
                      \* ended normally and none of its deliveries failed
    call              \* history: the last direct call of mark_as_sent

env == <<scheduleFile, contactsFile>>
locals == <<email_log, clock, events, contacts, events_to_remind, warnings,
            i, j,
            total_sent, total_skipped, summary, deliveries, renders, loaded>>
hist == <<sentEver, okDurable, failedKeys, prev>>

vars == <<env, disk, today, runs, pc, exit, locals, hist, call>>

\* datetime.now() read by execution number r after n earlier readings: later
\* executions, and later readings of one execution, give later instants.
Now(r, n) == <<r, n + 1>>

NoSummary == [none |-> TRUE]
NoPrev == [none |-> TRUE]
NoCall == [none |-> TRUE]

Count(bag, k) == IF k \in DOMAIN bag THEN bag[k] ELSE 0
AddOne(bag, k) ==
    [x \in DOMAIN bag \cup {k} |-> IF x = k THEN Count(bag, k) + 1 ELSE bag[x]]

RECURSIVE AddAll(_, _, _)
\* bag plus the keys of the successful deliveries among the first n of ds
AddAll(bag, ds, n) ==
    IF n = 0 THEN bag
    ELSE IF ds[n].ok THEN AddOne(AddAll(bag, ds, n - 1), ds[n].key)
    ELSE AddAll(bag, ds, n - 1)

Failed(ds) == {n \in 1..Len(ds) : ~ds[n].ok}
Succeeded(ds) == {n \in 1..Len(ds) : ds[n].ok}

\* What an execution that read evs and cts leaves for the next one to be
\* compared with.
OutcomeOf(evs, cts, how) ==
    IF how \in {"completed", "returned"} /\ Failed(deliveries) = {}
    THEN [events |-> evs, contacts |-> cts, today |-> today]
    ELSE NoPrev

\* The process is gone: its memory is gone with it.
ResetLocals ==
    /\ email_log' = EmptyLog
    /\ clock' = 0
    /\ events' = << >>
    /\ contacts' = << >>
    /\ events_to_remind' = << >>
    /\ warnings' = << >>
    /\ i' = 1
    /\ j' = 1
    /\ total_sent' = 0
    /\ total_skipped' = 0
    /\ summary' = NoSummary
    /\ deliveries' = << >>
    /\ renders' = 0
    /\ loaded' = EmptyLog

\* The execution ends: by return, by an exception caught in __main__, or by
\* the process being killed.
EndExecution(how) ==
    /\ pc' = "ended"
    /\ exit' = how
    /\ failedKeys' = failedKeys \cup {deliveries[n].key : n \in Failed(deliveries)}
    /\ sentEver' = sentEver \cup {deliveries[n].key : n \in Succeeded(deliveries)}
    /\ ResetLocals

Quiet ==
    /\ disk = [valid |-> TRUE, log |-> EmptyLog]
    /\ clock = 0
    /\ runs = 0
    /\ exit = "none"
    /\ email_log = EmptyLog
    /\ events_to_remind = << >>
    /\ warnings = << >>
    /\ i = 1
    /\ j = 1
    /\ total_sent = 0
    /\ total_skipped = 0
    /\ summary = NoSummary
    /\ deliveries = << >>
    /\ renders = 0
    /\ loaded = EmptyLog
    /\ sentEver = {}
    /\ okDurable = EmptyLog
    /\ failedKeys = {}
    /\ prev = NoPrev
    /\ call = NoCall

Init ==
    /\ scheduleFile \in SeqsUpTo(RunEvents, MaxRows)
    /\ contactsFile \in SeqsUpTo(Contacts, MaxRows - Len(scheduleFile))
    /\ today = 3
    /\ pc = "idle"
    /\ events = << >>
    /\ contacts = << >>
    /\ Quiet

\* ---------------------------------------------------------------- actions

\* EmailReminderSystem.__init__, config file present and ledger file absent
\* or a complete JSON document.
Construct ==
    /\ pc = "idle"
    /\ runs < MaxRuns
    /\ disk.valid
    /\ runs' = runs + 1
    /\ pc' = "constructed"
    /\ email_log' = disk.log
    /\ loaded' = disk.log
    /\ UNCHANGED <<env, disk, today, exit, clock, events, contacts,
                   events_to_remind, warnings,
                   i, j, total_sent, total_skipped, summary,
                   deliveries, renders, hist, call>>

\* EmailReminderSystem.__init__ raising: _load_config finds no config file,
\* or json.load in _load_email_log meets an incomplete document.  __main__
\* catches the exception and logs it.
ConstructFails ==
    /\ pc = "idle"
    /\ runs < MaxRuns
    /\ \E config_exists \in BOOLEAN : ~config_exists \/ ~disk.valid
    /\ runs' = runs + 1
    /\ pc' = "ended"
    /\ exit' = "error"
    /\ prev' = NoPrev
    /\ UNCHANGED <<env, disk, today, locals, sentEver, okDurable, failedKeys,
                   call>>

\* run(), lines 231-248: read both files and select the events due today;
\* a file that cannot be read gives [].  Return early on nothing to do.
RunReturns ==
    /\ pc = "constructed"
    /\ \E schedule_read, contacts_read \in BOOLEAN :
          LET evs == IF schedule_read THEN scheduleFile ELSE << >>
              cts == IF contacts_read THEN contactsFile ELSE << >>
          IN  /\ \/ evs = << >>
                 \/ cts = << >>
                 \/ get_events_needing_reminders(evs, today) = << >>
              /\ prev' = OutcomeOf(evs, cts, "returned")
    /\ EndExecution("returned")
    /\ UNCHANGED <<env, disk, today, runs, okDurable, call>>

\* The test "if not contacts: return" is missing.
RunStart_noContactsTest ==
    /\ pc = "constructed"
    /\ scheduleFile # << >>
    /\ get_events_needing_reminders(scheduleFile, today) # << >>
    /\ pc' = "loop"
    /\ events' = scheduleFile
    /\ contacts' = contactsFile
    /\ events_to_remind' = get_events_needing_reminders(scheduleFile, today)
    /\ warnings' = remind_warnings(scheduleFile)
    /\ i' = 1
    /\ j' = 1
    /\ total_sent' = 0
    /\ total_skipped' = 0
    /\ UNCHANGED <<env, disk, today, clock, runs, exit, email_log, summary,
                   deliveries, renders, loaded, hist, call>>

\* run(), lines 231-252, with something to do: the loops are entered.
RunStart ==
    /\ pc = "constructed"
    /\ scheduleFile # << >>
    /\ contactsFile # << >>
    /\ get_events_needing_reminders(scheduleFile, today) # << >>
    /\ pc' = "loop"
    /\ events' = scheduleFile
    /\ contacts' = contactsFile
    /\ events_to_remind' = get_events_needing_reminders(scheduleFile, today)
    /\ warnings' = remind_warnings(scheduleFile)
    /\ i' = 1
    /\ j' = 1
    /\ total_sent' = 0
    /\ total_skipped' = 0
    /\ UNCHANGED <<env, disk, today, clock, runs, exit, email_log, summary,
                   deliveries, renders, loaded, hist, call>>

\* The loops move to position pos, or are left when no event remains.
MoveTo(pos) ==
    /\ i' = pos[1]
    /\ j' = pos[2]
    /\ pc' = IF pos[1] > Len(events_to_remind) THEN "save" ELSE "loop"

\* Lines 259-262: the pair is in the ledger.
Skip ==
    /\ pc = "loop"
    /\ has_been_sent(email_log, events_to_remind[i], contacts[j].email)
    /\ total_skipped' = total_skipped + 1
    /\ MoveTo(NextPair(i, j, Len(contacts)))
    /\ UNCHANGED <<env, disk, today, clock, runs, exit, email_log, events,
                   contacts, events_to_remind, warnings,
                   total_sent, summary, deliveries,
                   renders, loaded, hist, call>>

\* Line 265, create_email_message: the template file is opened for every
\* pair.  When it is there the message is built.
Render ==
    /\ pc = "loop"
    /\ ~has_been_sent(email_log, events_to_remind[i], contacts[j].email)
    /\ renders' = renders + 1
    /\ pc' = "deliver"
    /\ UNCHANGED <<env, disk, today, clock, runs, exit, email_log, events,
                   contacts, events_to_remind, warnings,
                   i, j, total_sent, total_skipped,
                   summary, deliveries, loaded, hist, call>>

\* Line 265 when the template file is missing: create_email_message returns
\* None, unpacking it raises TypeError, run() is left through the exception
\* and __main__ logs it.  _save_email_log is not reached.
RenderFails ==
    /\ pc = "loop"
    /\ ~has_been_sent(email_log, events_to_remind[i], contacts[j].email)
    /\ prev' = OutcomeOf(events, contacts, "error")
    /\ EndExecution("error")
    /\ UNCHANGED <<env, disk, today, runs, okDurable, call>>

\* Lines 267-272: send_email reports success or failure; on success the
\* pair is marked and counted.
Deliver ==
    /\ pc = "deliver"
    /\ \E ok \in BOOLEAN :
          LET event == events_to_remind[i]
              to_email == contacts[j].email
              key == LogKey(event, to_email)
          IN  /\ deliveries' = Append(deliveries,
                     [task |-> i, contact |-> j, key |-> key, ok |-> ok])
              /\ email_log' = LogAfterSend(email_log, ok, event, to_email,
                                            Now(runs, clock))
              /\ clock' = IF ok THEN clock + 1 ELSE clock
              /\ total_sent' = IF ok THEN total_sent + 1 ELSE total_sent
              /\ MoveTo(AfterSend(ok, i, j, Len(contacts)))
    /\ UNCHANGED <<env, disk, today, runs, exit, events, contacts,
                   events_to_remind, warnings,
                   total_skipped, summary, renders, loaded,
                   hist, call>>

\* _save_email_log, line 57: open(log_file, 'w') truncates the file.
SaveOpen ==
    /\ pc = "save"
    /\ disk' = [valid |-> FALSE, log |-> EmptyLog]
    /\ pc' = "writing"
    /\ UNCHANGED <<env, today, runs, exit, locals, hist, call>>

\* Only the entries of this run are written.
SaveWrite_onlyNew ==
    /\ pc = "writing"
    /\ disk' = [valid |-> TRUE,
                log |-> [k \in DOMAIN email_log \ DOMAIN loaded |-> email_log[k]]]
    /\ pc' = "saved"
    /\ okDurable' = AddAll(okDurable, deliveries, Len(deliveries))
    /\ UNCHANGED <<env, today, runs, exit, locals, sentEver, failedKeys, prev,
                   call>>

\* _save_email_log, line 58 and the end of the with block: the document is
\* written and the file closed.
SaveWrite ==
    /\ pc = "writing"
    /\ disk' = [valid |-> TRUE, log |-> email_log]
    /\ pc' = "saved"
    /\ okDurable' = AddAll(okDurable, deliveries, Len(deliveries))
    /\ UNCHANGED <<env, today, runs, exit, locals, sentEver, failedKeys, prev,
                   call>>

\* Every attempt is counted as sent.
SummaryLine_attempts == [sent |-> Len(deliveries), skipped |-> total_skipped]

\* Line 278: the values the summary line is formatted from.
SummaryLine == [sent |-> total_sent, skipped |-> total_skipped]

\* Lines 277-279: the summary is logged.
Summarize ==
    /\ pc = "saved"
    /\ summary' = SummaryLine
    /\ pc' = "summarized"
    /\ UNCHANGED <<env, disk, today, runs, exit, email_log, clock, events,
                   contacts, events_to_remind, warnings,
                   i, j, total_sent, total_skipped,
                   deliveries, renders, loaded, hist, call>>

\* run() returns after the summary.
RunCompletes ==
    /\ pc = "summarized"
    /\ prev' = OutcomeOf(events, contacts, "completed")
    /\ EndExecution("completed")
    /\ UNCHANGED <<env, disk, today, runs, okDurable, call>>

\* The process is killed at any point of an execution.
Kill ==
    /\ pc \in {"constructed", "loop", "deliver", "save", "writing", "saved",
               "summarized"}
    /\ prev' = OutcomeOf(events, contacts, "killed")
    /\ EndExecution("killed")
    /\ UNCHANGED <<env, disk, today, runs, okDurable, call>>

\* Lines 281-286: the status the process ends with.  run() returning and an
\* exception caught by "except Exception" both let the script run off its
\* end, which is status 0; no sys.exit is called anywhere.  A process killed
\* by SIGKILL is reported as 137.
ExitStatus(how) == IF how = "killed" THEN 137 ELSE 0

\* The process is gone.
ProcessExit ==
    /\ pc = "ended"
    /\ pc' = "idle"
    /\ exit' = "none"
    /\ UNCHANGED <<env, disk, today, runs, locals, hist, call>>

\* Midnight passes between two executions.
NextDay ==
    /\ pc = "idle"
    /\ today < LastDay
    /\ today' = today + 1
    /\ UNCHANGED <<env, disk, runs, pc, exit, locals, hist, call>>

Next ==
    \/ Construct
    \/ ConstructFails
    \/ RunReturns
    \/ RunStart
    \/ Skip
    \/ Render
    \/ RenderFails
    \/ Deliver
    \/ SaveOpen
    \/ SaveWrite
    \/ Summarize
    \/ RunCompletes
    \/ Kill
    \/ ProcessExit
    \/ NextDay

Spec == Init /\ [][Next]_vars

\* ------------------------------------- the program run once a calendar day

\* The process is gone and the scheduler starts the next one on the next
\* calendar day.
DailyExit ==
    /\ pc = "ended"
    /\ today < LastDay
    /\ pc' = "idle"
    /\ exit' = "none"
    /\ today' = today + 1
    /\ UNCHANGED <<env, disk, runs, locals, hist, call>>

\* The steps the program takes by itself once started.
ProgramStep ==
    \/ RunReturns
    \/ RunStart
    \/ Skip
    \/ Render
    \/ RenderFails
    \/ Deliver
    \/ SaveOpen
    \/ SaveWrite
    \/ Summarize
    \/ RunCompletes

DailyNext ==
    \/ Construct
    \/ ConstructFails
    \/ ProgramStep
    \/ Kill
    \/ DailyExit

\* A started program runs on unless it is killed, and the scheduler starts
\* it every day.
DailySpec ==
    /\ Init
    /\ [][DailyNext]_vars
    /\ WF_vars(ProgramStep)
    /\ WF_vars(Construct \/ ConstructFails)
    /\ WF_vars(DailyExit)

\* ---------------------------------------------- the selector on its own

\* The events get_events_needing_reminders is applied to.
SelEvents == {e \in Events : e.time = "09:00"}

SelInit ==
    /\ scheduleFile = << >>
    /\ contactsFile = << >>
    /\ events \in SeqsUpTo(SelEvents, MaxRows)
    /\ contacts = << >>
    /\ today \in 3..LastDay
    /\ pc = "select"
    /\ Quiet

\* Line 244: events_to_remind = self.get_events_needing_reminders(events)
Select ==
    /\ pc = "select"
    /\ events_to_remind' = get_events_needing_reminders(events, today)
    /\ warnings' = remind_warnings(events)
    /\ pc' = "selected"
    /\ UNCHANGED <<env, disk, today, runs, exit, email_log, clock, events,
                   contacts, i, j, total_sent, total_skipped, summary,
                   deliveries, renders, loaded, hist, call>>

SelectorSpec == SelInit /\ [][Select]_vars

\* ------------------------------------------- the ledger object on its own

LedgerInit ==
    /\ scheduleFile = << >>
    /\ contactsFile = << >>
    /\ events = << >>
    /\ contacts = << >>
    /\ today = 3
    /\ pc = "object"
    /\ Quiet

\* Lines 215-223: a caller invokes mark_as_sent(event, contact_email) on the
\* object, whatever the ledger holds.  The method has no raise statement and
\* the dict assignment cannot fail.
MarkCall ==
    /\ pc = "object"
    /\ clock < MaxMarks
    /\ \E event \in RunEvents, contact \in Contacts :
          LET log_key == LogKey(event, contact.email)
          IN  /\ email_log' = mark_as_sent(email_log, event, contact.email,
                                            Now(runs, clock))
              /\ call' = [key |-> log_key,
                          existed |-> log_key \in DOMAIN email_log,
                          before |-> email_log,
                          now |-> Now(runs, clock),
                          raised |-> FALSE]
    /\ clock' = clock + 1
    /\ UNCHANGED <<env, disk, today, runs, pc, exit, events, contacts,
                   events_to_remind, warnings,
                   i, j, total_sent, total_skipped, summary,
                   deliveries, renders, loaded, hist>>

LedgerSpec == LedgerInit /\ [][MarkCall]_vars

InLoops == pc \in {"loop", "deliver"}
InRun == pc \in {"loop", "deliver", "save", "writing", "saved", "summarized"}

TypeOK ==
    /\ pc \in {"idle", "constructed", "loop", "deliver", "save", "writing", "saved",
              "summarized", "ended", "select", "selected", "object"}
    /\ exit \in {"none", "returned", "completed", "error", "killed"}
    /\ runs \in 0..MaxRuns
    /\ InLoops => i \in 1..Len(events_to_remind) /\ j \in 1..Len(contacts)

\* ------------------------------------------------------------- properties

\* Successful sends of key k by the execution in progress that okDurable
\* does not count yet.
SentNow(k) ==
    IF pc \in {"loop", "deliver", "save", "writing"}
    THEN Cardinality({n \in Succeeded(deliveries) : deliveries[n].key = k})
    ELSE 0

\* C1 as stated: over all executions, completed, killed or stopped by an
\* error, the delivery channel reports success at most once for each key
\* (event date, event type, recipient email).
C1_AtMostOnceOverAllExecutions ==
    \A n \in Succeeded(deliveries) :
       /\ deliveries[n].key \notin sentEver
       /\ \A m \in Succeeded(deliveries) :
             deliveries[m].key = deliveries[n].key => m = n

\* C1 amended: among the executions that completed the persist step, taken
\* together with the execution in progress, the delivery channel reports
\* success at most once for each key; only sends of executions that ended
\* before their persist step completed can be repeated.
C1_AtMostOnceAmongPersisted ==
    /\ \A k \in DOMAIN okDurable \cup DOMAIN email_log :
          Count(okDurable, k) + SentNow(k) <= 1
    /\ \A k \in DOMAIN okDurable : disk.valid => k \in DOMAIN disk.log

\* A second execution has skipped a pair that a first one delivered and
\* persisted.
C1_Witness ==
    /\ runs = 2
    /\ pc = "saved"
    /\ total_skipped >= 1
    /\ \E k \in DOMAIN loaded : Count(okDurable, k) = 1

\* The pairs the loops have passed: all of them once the loops are left.
PairsDone ==
    IF InLoops
    THEN (i - 1) * Len(contacts) + (j - 1)
    ELSE Len(events_to_remind) * Len(contacts)

\* The execution in progress reads what the execution before it read, on
\* the same date, and that one ended normally with no delivery failing.
RerunOfCleanRun ==
    /\ InRun
    /\ prev = [events |-> events, contacts |-> contacts, today |-> today]

\* C2: a run that repeats a completed run in which every delivery succeeded
\* (same events, contacts and date, the ledger that run left) renders and
\* attempts nothing, adds no ledger entry in memory or on disk, and counts
\* every (task, recipient) pair as skipped.
C2_IdempotentRerun ==
    RerunOfCleanRun =>
        /\ deliveries = << >>
        /\ renders = 0
        /\ pc # "deliver"
        /\ total_sent = 0
        /\ email_log = loaded
        /\ total_skipped = PairsDone
        /\ pc \in {"saved", "summarized"} => disk = [valid |-> TRUE, log |-> loaded]

\* The repeated run has passed every pair, two at least, and has persisted.
C2_Witness ==
    /\ RerunOfCleanRun
    /\ pc = "saved"
    /\ total_skipped >= 2
    /\ Cardinality(DOMAIN loaded) >= 2

\* The key of the q-th pair of the loops, in their order.
PairKey(q) ==
    LogKey(events_to_remind[((q - 1) \div Len(contacts)) + 1],
           contacts[((q - 1) % Len(contacts)) + 1].email)

\* The place of the n-th delivery attempt in the order of the loops.
PairOf(n) == (deliveries[n].task - 1) * Len(contacts) + deliveries[n].contact

\* C3 as stated: a pair whose delivery failed has no ledger entry after the
\* run, in memory or persisted, and a later run that selects the event
\* attempts delivery for that very pair again.
C3_FailedPairNeverInLedger ==
    /\ pc = "saved" =>
          \A n \in Failed(deliveries) :
             /\ deliveries[n].key \notin DOMAIN email_log
             /\ deliveries[n].key \notin DOMAIN disk.log
    /\ InRun =>
          \A q \in 1..PairsDone :
             PairKey(q) \in failedKeys =>
                \E n \in 1..Len(deliveries) : PairOf(n) = q

\* C3 amended: a failure report adds no ledger entry (the in-memory ledger
\* is the loaded one plus the keys delivered successfully, and the persisted
\* one equals it after the run); the key of a failed pair is in the ledger
\* only if a later pair of the same run with the same key (a second event
\* with the same date and event_type, or a repeated email) was delivered;
\* and a later run that reaches a pair whose key failed before and is not
\* in the ledger it loaded does not skip it without a delivery attempt for
\* that key.
C3_FailureAddsNoEntry ==
    InRun =>
        /\ DOMAIN email_log =
              DOMAIN loaded \cup {deliveries[n].key : n \in Succeeded(deliveries)}
        /\ \A n \in Failed(deliveries) :
              /\ deliveries[n].key \notin DOMAIN loaded
              /\ deliveries[n].key \in DOMAIN email_log =>
                    \E m \in Succeeded(deliveries) :
                       m > n /\ deliveries[m].key = deliveries[n].key
        /\ pc \in {"saved", "summarized"} => disk = [valid |-> TRUE, log |-> email_log]
        /\ \A q \in 1..PairsDone :
              (PairKey(q) \in failedKeys /\ PairKey(q) \notin DOMAIN loaded) =>
                 \E n \in 1..Len(deliveries) :
                    deliveries[n].key = PairKey(q) /\ PairOf(n) <= q

\* A second run has attempted a key that failed in the first run, has had
\* a failure of its own, and has persisted a ledger without the failed key.
C3_Witness ==
    /\ runs = 2
    /\ pc = "saved"
    /\ \E n \in 1..Len(deliveries) : deliveries[n].key \in failedKeys
    /\ \E n \in Failed(deliveries) : deliveries[n].key \notin DOMAIN disk.log

\* The step in which send_email reports a failure.
FailureStep ==
    /\ Len(deliveries') = Len(deliveries) + 1
    /\ ~deliveries'[Len(deliveries')].ok

\* A step of the execution itself, as opposed to its being killed.
RunStep ==
    Skip \/ Render \/ Deliver \/ SaveOpen \/ SaveWrite \/ Summarize \/ RunCompletes

\* C4: a failed delivery leaves the run in its loops at the next pair in
\* order, or at the persist step after the last pair; every pair the loops
\* have passed was skipped or attempted, in order and at most once; and
\* a run with a failure behind it always has a next step of its own, up to
\* the summary and the return.
C4_FailureContinuesRun ==
    /\ [][FailureStep =>
            /\ <<i', j'>> = NextPair(i, j, Len(contacts))
            /\ pc' = IF i' > Len(events_to_remind) THEN "save" ELSE "loop"
            /\ total_skipped' = total_skipped
            /\ total_sent' = total_sent]_vars
    /\ [](InRun =>
            /\ \A n, m \in 1..Len(deliveries) : n < m => PairOf(n) < PairOf(m)
            /\ \A n \in 1..Len(deliveries) :
                  PairOf(n) <= PairsDone + (IF pc = "deliver" THEN 1 ELSE 0)
            /\ Len(deliveries) + total_skipped = PairsDone
            /\ Failed(deliveries) # {} => ENABLED RunStep)

\* A run whose first delivery failed has gone on to a second pair and has
\* reached the summary.
C4_Witness ==
    /\ pc = "summarized"
    /\ Len(deliveries) >= 1
    /\ ~deliveries[1].ok
    /\ PairOf(1) = 1
    /\ PairsDone >= 2
    /\ disk = [valid |-> TRUE, log |-> email_log]

\* The rule of the selector: the reminder an event is due on day d, if any.
DueKind(e, d) ==
    IF e.event_type \in {"practice", "Practice"}
          /\ DateParses(e.date) /\ ParseDate(e.date) = d + 1
    THEN "practice_reminder"
    ELSE IF e.event_type \in {"game", "Game"}
          /\ DateParses(e.date) /\ ParseDate(e.date) = d
    THEN "game_reminder"
    ELSE "none"

\* The places in evs of the events due on day d, and the n-th of them.
DuePlaces(evs, d) == {n \in 1..Len(evs) : DueKind(evs[n], d) # "none"}
NthDue(evs, d, n) ==
    CHOOSE m \in DuePlaces(evs, d) :
       Cardinality({x \in DuePlaces(evs, d) : x < m}) = n - 1

\* C5: the selector returns exactly the events that are a practice (in any
\* case) dated tomorrow, tagged practice_reminder, or a game (in any case)
\* dated today, tagged game_reminder: each once, all others left out, in
\* the order of the input.
C5_SelectorRule ==
    pc = "selected" =>
        /\ Len(events_to_remind) = Cardinality(DuePlaces(events, today))
        /\ \A n \in 1..Len(events_to_remind) :
              LET e == events[NthDue(events, today, n)]
              IN  events_to_remind[n] =
                     [event_type |-> e.event_type, date |-> e.date,
                      time |-> e.time, reminder_type |-> DueKind(e, today),
                      send_date |-> today]

\* Out of three events, the first is left out (a practice dated today) and
\* the other two are selected in their order, a game written "Game" and a
\* practice written "Practice".
C5_Witness ==
    /\ pc = "selected"
    /\ Len(events) = 3
    /\ events[1].event_type = "practice" /\ events[1].date = "2025-06-03"
    /\ today = 3
    /\ Len(events_to_remind) = 2
    /\ events_to_remind[1].reminder_type = "game_reminder"
    /\ events_to_remind[1].event_type = "Game"
    /\ events_to_remind[2].reminder_type = "practice_reminder"
    /\ events_to_remind[2].event_type = "Practice"

\* The pair the loops have reached is already in the ledger.
PairKnown ==
    /\ pc = "loop"
    /\ LogKey(events_to_remind[i], contacts[j].email) \in DOMAIN email_log

\* C6: when the ledger holds the key of the pair the loops have reached, the
\* step the run takes for that pair makes no render and no delivery attempt,
\* adds exactly one to the skip counter, leaves the ledger (in memory and on
\* disk) as it is, and moves to the next pair, or to the persist step after
\* the last pair.
C6_SkipPath ==
    [][(PairKnown /\ exit' # "killed") =>
          /\ renders' = renders
          /\ deliveries' = deliveries
          /\ total_skipped' = total_skipped + 1
          /\ total_sent' = total_sent
          /\ email_log' = email_log
          /\ disk' = disk
          /\ IF j < Len(contacts)
                THEN pc' = "loop" /\ i' = i /\ j' = j + 1
                ELSE IF i < Len(events_to_remind)
                THEN pc' = "loop" /\ i' = i + 1 /\ j' = 1
                ELSE pc' = "save"]_vars

\* The first pair of a run was skipped and the run stands at its second pair
\* with nothing rendered and nothing attempted.
C6_Witness ==
    /\ pc = "loop"
    /\ total_skipped = 1
    /\ renders = 0
    /\ deliveries = << >>
    /\ <<i, j>> # <<1, 1>>

\* The pairs of the run: selected tasks times recipients.
Pairs == Len(events_to_remind) * Len(contacts)

Combos == (1..Len(events_to_remind)) \X (1..Len(contacts))
Triple(q) ==
    <<events_to_remind[q[1]].date, events_to_remind[q[1]].event_type,
      contacts[q[2]].email>>
Triples == {Triple(q) : q \in Combos}
EntryTriple(e) == <<e.event_date, e.event_type, e.recipient>>

\* The run started from an empty ledger, every delivery succeeded, and the
\* ledger has been persisted.
CleanBroadcast ==
    /\ pc \in {"saved", "summarized"}
    /\ loaded = EmptyLog
    /\ Failed(deliveries) = {}

\* C8 as stated: after such a run exactly one delivery attempt was made for
\* every combination of selected task and recipient, and the ledger holds
\* one entry per combination.
C8_BroadcastPerCombination ==
    CleanBroadcast =>
        /\ \A q \in Combos :
              Cardinality({n \in 1..Len(deliveries) :
                  <<deliveries[n].task, deliveries[n].contact>> = q}) = 1
        /\ Cardinality(DOMAIN email_log) = Cardinality(Combos)

\* C8 amended: after such a run exactly one delivery attempt was made for
\* every distinct (event date, event type, recipient email) among the
\* combinations, and the ledger, in memory and on disk, holds exactly one
\* entry per such triple and nothing else.
C8_BroadcastPerKey ==
    CleanBroadcast =>
        /\ \A t \in Triples :
              /\ Cardinality({n \in 1..Len(deliveries) :
                    Triple(<<deliveries[n].task, deliveries[n].contact>>) = t})
                    = 1
              /\ Cardinality({k \in DOMAIN email_log :
                    EntryTriple(email_log[k]) = t}) = 1
        /\ Cardinality(DOMAIN email_log) = Cardinality(Triples)
        /\ disk = [valid |-> TRUE, log |-> email_log]

\* One task was broadcast to two different recipients.
C8_Witness ==
    /\ CleanBroadcast
    /\ Len(events_to_remind) = 1
    /\ Len(contacts) = 2
    /\ Len(deliveries) = 2
    /\ Cardinality(DOMAIN email_log) = 2

\* C9: when the process is killed during the persist step, the ledger file
\* still holds, readable, every entry that it held before the persist
\* began, which is the ledger the execution loaded.
C9_CrashSafePersist ==
    [][(pc \in {"save", "writing"} /\ exit' = "killed") =>
          \A k \in DOMAIN loaded :
             /\ disk'.valid
             /\ k \in DOMAIN disk'.log
             /\ disk'.log[k] = loaded[k]]_vars

\* mark_as_sent was called for a key the ledger already held.
SecondMark == "key" \in DOMAIN call /\ call.existed

\* C10 as stated: a call of mark_as_sent for a key that is already in the
\* ledger fails with an error and leaves the ledger, the existing entry and
\* its sent timestamp included, unchanged.
C10_DuplicateInsertFails ==
    SecondMark =>
        /\ call.raised
        /\ email_log = call.before

\* C10 amended: a call of mark_as_sent for a key that is already in the
\* ledger raises no error; it replaces the entry by one with the same event
\* date, event type and recipient whose sent timestamp is the time of the
\* call, and leaves every other entry and the set of keys unchanged.
C10_DuplicateInsertOverwrites ==
    SecondMark =>
        /\ ~call.raised
        /\ DOMAIN email_log = DOMAIN call.before
        /\ \A k \in DOMAIN email_log \ {call.key} :
              email_log[k] = call.before[k]
        /\ email_log[call.key] =
              [call.before[call.key] EXCEPT !.sent_date = call.now]

\* A second call for a key, made later than the first.
C10_Witness ==
    /\ SecondMark
    /\ call.before[call.key].sent_date # call.now

\* The schedule has no row, the contacts have no row, or no event of the
\* schedule is due today (by the rule of the selector).
NothingToDo ==
    \/ scheduleFile = << >>
    \/ contactsFile = << >>
    \/ DuePlaces(scheduleFile, today) = {}

\* The step left the ledger file, the attempts and the renders as they were.
NoOpStep ==
    /\ disk' = disk
    /\ email_log = loaded
    /\ loaded = disk.log
    /\ deliveries = << >>
    /\ renders = 0
    /\ sentEver' = sentEver
    /\ failedKeys' = failedKeys
    /\ okDurable' = okDurable

\* C11: a run that has nothing to do (a source missing, unreadable or empty,
\* or no event due today) returns without an error, and a run that returns
\* early has made no delivery attempt and no render and has left the ledger,
\* in memory and on disk, as loaded; the loops and the persist step are
\* entered only with events, contacts and due events at hand.
C11_NoOpRuns ==
    /\ [][(pc = "constructed" /\ NothingToDo /\ exit' # "killed") =>
             (exit' = "returned" /\ NoOpStep)]_vars
    /\ [][(pc = "constructed" /\ exit' = "returned") => NoOpStep]_vars
    /\ [](pc \in {"loop", "deliver", "save", "writing", "saved", "summarized"}
             => /\ events # << >>
                /\ contacts # << >>
                /\ events_to_remind # << >>)

\* A second execution has returned early and the entry persisted by the
\* first is still in the ledger file.
C11_Witness ==
    /\ pc = "ended"
    /\ exit = "returned"
    /\ runs = 2
    /\ disk.valid
    /\ disk.log # EmptyLog

\* A record the selector cannot use: its date is not a calendar date
\* written year-month-day, or its kind is neither practice nor game.
BadDate(e) == e.date \notin {"2025-06-03", "2025-6-3", "2025-06-04", "2025-06-05"}
BadKind(e) == e.event_type \notin {"practice", "Practice", "game", "Game"}
BadRecord(e) == BadDate(e) \/ BadKind(e)
GoodRecord(e) == ~BadRecord(e)
BadDateRecord(e) == BadDate(e)

\* The selection equals the selection made from the schedule with the bad
\* records taken out, and so holds no task of a bad record.
BadRecordsIsolated ==
    LET good == SelectSeq(events, GoodRecord)
    IN  /\ Len(events_to_remind) = Cardinality(DuePlaces(good, today))
        /\ \A n \in 1..Len(events_to_remind) :
              LET e == good[NthDue(good, today, n)]
              IN  /\ events_to_remind[n].event_type = e.event_type
                  /\ events_to_remind[n].date = e.date
                  /\ events_to_remind[n].time = e.time
                  /\ events_to_remind[n].reminder_type = DueKind(e, today)

C13_ExitStatus ==
    /\ [][(pc' = "ended" /\ exit' \in {"returned", "completed"}) =>
             ExitStatus(exit') = 0]_vars
    /\ [][(pc = "idle" /\ pc' = "ended") => ExitStatus(exit') # 0]_vars

\* An execution is between its construction and its end.
Alive == pc \in {"constructed", "loop", "deliver", "save", "writing", "saved",
                 "summarized"}

\* C14: at every point of a run the in-memory ledger is the loaded ledger,
\* entries unchanged, plus one entry for each key delivered successfully so
\* far in this run, carrying the date, kind and recipient of its pair; the
\* ledger changes only in the step in which send_email reports success for
\* the pair at hand, by the insertion of that pair's key and before the
\* next pair is examined, and never in a step that reports a failure.
C14_LedgerMatchesOutcomes ==
    /\ [](Alive =>
            /\ DOMAIN email_log =
                  DOMAIN loaded \cup
                     {deliveries[n].key : n \in Succeeded(deliveries)}
            /\ \A k \in DOMAIN loaded : email_log[k] = loaded[k]
            /\ \A n \in Succeeded(deliveries) :
                  /\ deliveries[n].key \notin DOMAIN loaded
                  /\ EntryTriple(email_log[deliveries[n].key]) =
                        Triple(<<deliveries[n].task, deliveries[n].contact>>))
    /\ [][(Alive /\ Alive' /\ email_log' # email_log) =>
             /\ pc = "deliver"
             /\ deliveries' =
                   Append(deliveries,
                          [task |-> i, contact |-> j,
                           key |-> deliveries'[Len(deliveries')].key,
                           ok |-> TRUE])
             /\ deliveries'[Len(deliveries')].key \notin DOMAIN email_log
             /\ DOMAIN email_log' =
                   DOMAIN email_log \cup {deliveries'[Len(deliveries')].key}
             /\ \A k \in DOMAIN email_log : email_log'[k] = email_log[k]]_vars
    /\ [][FailureStep => email_log' = email_log]_vars

\* A second execution started from a ledger with an entry, has delivered
\* its first pair and stands before its second pair with exactly one entry
\* more.
C14_Witness ==
    /\ runs = 2
    /\ pc = "loop"
    /\ loaded # EmptyLog
    /\ Len(deliveries) = 1
    /\ deliveries[1].ok
    /\ Cardinality(DOMAIN email_log) = Cardinality(DOMAIN loaded) + 1

\* The (event date, event type, recipient email) of the n-th delivery
\* attempt of the execution; the event time is no part of it.
AttemptTriple(n) == Triple(<<deliveries[n].task, deliveries[n].contact>>)

\* No attempt follows, in the same execution, a successful delivery for the
\* same date, kind and recipient, whatever the times of the two events.
SkippedInSameRun ==
    \A m \in 1..Len(deliveries) : \A n \in 1..(m - 1) :
       deliveries[n].ok => AttemptTriple(n) # AttemptTriple(m)

\* C15 as stated: once a recipient has been sent a reminder for an event
\* of some date and kind, no other attempt for that date, kind and
\* recipient is made, in the same run or in any later run, whatever the
\* time of the event.
C15_SkippedInEveryLaterRun ==
    Alive =>
        /\ SkippedInSameRun
        /\ \A m \in 1..Len(deliveries) : deliveries[m].key \notin sentEver

\* C15 amended: once a recipient has been sent a reminder for an event of
\* some date and kind, no other attempt for that date, kind and recipient
\* is made in the same run, nor in any later run that loads a ledger in
\* which that send was persisted, whatever the time of the event.
C15_SkippedWhenRecorded ==
    Alive =>
        /\ SkippedInSameRun
        /\ \A m \in 1..Len(deliveries) : \A k \in DOMAIN loaded :
              EntryTriple(loaded[k]) # AttemptTriple(m)

\* Two events of one day and kind at different times: a second execution
\* has skipped both for the recipient the first execution sent one of them
\* to.
C15_Witness ==
    /\ runs = 2
    /\ pc = "save"
    /\ Len(events_to_remind) = 2
    /\ events_to_remind[1].date = events_to_remind[2].date
    /\ events_to_remind[1].event_type = events_to_remind[2].event_type
    /\ events_to_remind[1].time # events_to_remind[2].time
    /\ Cardinality(DOMAIN loaded) = 1
    /\ total_skipped = 2
    /\ deliveries = << >>

\* The ledger file holds, readable, every entry the execution loaded, each
\* as it was loaded.
KeepsLoaded(d) ==
    /\ d.valid
    /\ \A k \in DOMAIN loaded :
          /\ k \in DOMAIN d.log
          /\ d.log[k].sent_date = loaded[k].sent_date
          /\ d.log[k].event_date = loaded[k].event_date
          /\ d.log[k].event_type = loaded[k].event_type
          /\ d.log[k].recipient = loaded[k].recipient

\* C16: every run that completes (by the summary or by an early return)
\* leaves in the persisted ledger every entry that was there before it,
\* with the same sent timestamp, event date, event type and recipient; the
\* ledger an execution loads is the persisted one, and once a run has
\* persisted, the file keeps those entries.
C16_LedgerAppendOnly ==
    /\ [][(pc' = "ended" /\ exit' \in {"completed", "returned"}) =>
             KeepsLoaded(disk')]_vars
    /\ [][(pc = "idle" /\ pc' = "constructed") => loaded' = disk.log]_vars
    /\ [](pc \in {"saved", "summarized"} =>
             KeepsLoaded(disk) /\ disk.log = email_log)

\* A second run has persisted a ledger that holds the entry of the first
\* run and a new one.
C16_Witness ==
    /\ runs = 2
    /\ pc = "saved"
    /\ loaded # EmptyLog
    /\ Cardinality(DOMAIN disk.log) = Cardinality(DOMAIN loaded) + 1

\* C17 as stated, for the program run once per calendar day: a key whose
\* delivery failed in the run of one day has been attempted again, or has
\* been delivered, by the time the run of the last day has been through
\* its pairs.
C17_RetriedByLaterDailyRun ==
    (pc = "save" /\ today = LastDay) =>
        \A k \in failedKeys :
           \/ k \in sentEver
           \/ \E n \in 1..Len(deliveries) : deliveries[n].key = k

\* C17 amended, for the program run once per calendar day: no run makes a
\* delivery attempt for a key whose delivery failed in the run of an
\* earlier day, and no run selects an event that the run of an earlier day
\* could have selected: each event is due on one day only.
C17_NoRetryByLaterDailyRun ==
    Alive =>
        /\ \A n \in 1..Len(deliveries) : deliveries[n].key \notin failedKeys
        /\ \A n \in 1..Len(events_to_remind) : \A d \in 3..(today - 1) :
              DueKind(events_to_remind[n], d) = "none"

\* The run of the second day has made a delivery attempt while a key that
\* failed on the first day is neither delivered nor attempted again.
C17_Witness ==
    /\ runs = 2
    /\ today = 4
    /\ pc = "save"
    /\ deliveries # << >>
    /\ \E k \in failedKeys :
          /\ k \notin sentEver
          /\ k \notin DOMAIN email_log
====
